---- MODULE Spec2Model ----
(***************************************************************************)
(* Model of src/app.py: the model-failover dispatcher                      *)
(* (_openrouter_chat_sync with _is_model_available / _mark_model_failed    *)
(* over the shared _model_state), and the message handler of the bot.      *)
(*                                                                         *)
(* Dispatch runs execute in threads (asyncio.to_thread), so the steps of   *)
(* different runs interleave wherever a run reads or writes _model_state.  *)
(* A run's step is one access of the shared state together with the        *)
(* thread-local code around it.                                            *)
(***************************************************************************)
EXTENDS Integers, Sequences, FiniteSets, TLC

(* ------------------------------ bounds -------------------------------- *)
\* len(MODEL_PRIORITY): the backends, in priority order 1..NumModels
NumModels == 2
\* threads that call the dispatcher directly (SpecDispatch, SpecSeq)
NumCallers == 3
\* messages the bot receives; each is handled by one handle_message task
MaxMsgs == 2
\* users (update.effective_user.id)
NumUsers == 1
\* worker threads of the executor behind asyncio.to_thread
MaxWorkers == 1
\* HISTORY_PAIRS_TO_KEEP (K), scaled down so that a few messages fill the window
HISTORY_PAIRS_TO_KEEP == 1
\* the clock stops at MaxTime
MaxTime == 3
\* the failure counter is followed up to MaxFails: runs that overlap with
\* resets can carry it up without end
MaxFails == 3
\* threads that call the dispatcher again and again (SpecLive)
LiveCallers == 2
\* entries in the answer of the model listing endpoint
MaxListing == 3

(* ------------------------- program constants -------------------------- *)
\* T: int(os.getenv("MODEL_FAILURE_THRESHOLD", "2"))
MODEL_FAILURE_THRESHOLD == 2
\* D: int(os.getenv("MODEL_COOLDOWN_SECONDS", ...)), in clock ticks of the model
MODEL_COOLDOWN_SECONDS == 2

Models == 1..NumModels
Users == 1..NumUsers
HandlerIds == 1..MaxMsgs
\* handler h awaits the runs RatingRun(h) and ReplyRun(h)
RatingRun(h) == 2 * h - 1
ReplyRun(h) == 2 * h
NumRuns == IF NumCallers > 2 * MaxMsgs THEN NumCallers ELSE 2 * MaxMsgs
RunIds == 1..NumRuns
\* list objects: one per session and one per handler, and one to spare
NumLists == NumUsers + MaxMsgs + 1
ListIds == 1..NumLists

VARIABLES
  now,            \* time.time()
  model_state,    \* _model_state: per backend, the state dict or None
  runs,           \* the dispatch runs: locals and position of each thread
  chat_sessions,  \* chat_sessions: per user, the list object stored (0: no entry)
  lists,          \* the list objects, which handlers and chat_sessions share
  handlers,       \* the handle_message tasks: locals and position of each
  listing,        \* the answer fetch_free_models got to its last request
  catalog         \* the list fetch_free_models returned last (<<>>: not called)

vars == <<now, model_state, runs, chat_sessions, lists, handlers, listing, catalog>>

(* ------------------------------- catalog ------------------------------ *)
\* "openrouter/free", the auto-router
DefaultModel == "openrouter/free"
ModelIds == {DefaultModel, "a", "b"}

\* an entry of data: its id and whether pricing.prompt and pricing.completion
\* are both "0"; ok is FALSE for an entry whose processing raises (no "id"
\* key in a free entry, pricing that is no dict, an entry that is no dict)
ListingEntries ==
  [id : ModelIds, free : BOOLEAN, ok : {TRUE}]
    \cup {[id |-> "", free |-> TRUE, ok |-> FALSE]}

RECURSIVE SeqsUpTo(_, _)
SeqsUpTo(S, n) ==
  IF n = 0 THEN {<<>>}
  ELSE LET shorter == SeqsUpTo(S, n - 1)
       IN shorter \cup {Append(q, e) : q \in {t \in shorter : Len(t) = n - 1}, e \in S}

\* the answers to requests.get: status 0 stands for a transport exception
NoListing == [status |-> -1, data |-> <<>>]
Listings ==
  {[status |-> 200, data |-> q] : q \in SeqsUpTo(ListingEntries, MaxListing)}
    \cup {[status |-> s, data |-> <<>>] : s \in {0, 500}}

\* the fallback list of fetch_free_models
Fallback ==
  <<DefaultModel, "liquid/lfm-2.5-1.2b-instruct:free", "google/gemma-3-27b-it:free">>

\* the loop over data: the ids of the free entries, in order
RECURSIVE FreeIds(_)
FreeIds(data) ==
  IF data = <<>> THEN <<>>
  ELSE IF Head(data).free THEN <<Head(data).id>> \o FreeIds(Tail(data))
  ELSE FreeIds(Tail(data))

\* list.remove(x): without the first occurrence of x
RECURSIVE RemoveFirst(_, _)
RemoveFirst(q, x) ==
  IF q = <<>> THEN <<>>
  ELSE IF Head(q) = x THEN Tail(q)
  ELSE <<Head(q)>> \o RemoveFirst(Tail(q), x)

InList(q, x) == \E i \in 1..Len(q) : q[i] = x

\* the auto-router goes first
DefaultFirst(free_models) ==
  IF ~InList(free_models, DefaultModel) THEN <<DefaultModel>> \o free_models
  ELSE <<DefaultModel>> \o RemoveFirst(free_models, DefaultModel)

fetch_free_models(resp) ==
  IF resp.status # 200 THEN Fallback
  ELSE IF \E i \in 1..Len(resp.data) : ~resp.data[i].ok THEN Fallback
  ELSE DefaultFirst(FreeIds(resp.data))

(* ------------------------------ responses ----------------------------- *)
\* reply texts a backend may put into choices[0].message.content
Contents == { <<>>, <<" ">>, <<"4">>, <<" ", "o", "k">> }

\* status 0 stands for requests.post raising (timeout, connection error)
Exc == [status |-> 0, content |-> <<>>]
Responses ==
  { [status |-> 200, content |-> c] : c \in Contents }
    \cup { [status |-> s, content |-> <<>>] : s \in {429, 401, 403, 400} }
    \cup { Exc }

\* what the rating request may be answered with
RatingTexts ==
  { <<>>, <<" ">>, <<"0">>, <<"1">>, <<"3">>, <<"5">>, <<"6">>, <<"9">>,
    <<"a">>, <<" ", "2", " ">>, <<"4", "0">>, <<"0", "4">>, <<"a", "3">>,
    <<"-", "1">> }
RatingResponses ==
  { [status |-> 200, content |-> c] : c \in RatingTexts }
    \cup { [status |-> s, content |-> <<>>] : s \in {429, 401} }
    \cup { Exc }

\* str.strip() on a text given as a tuple of characters
RECURSIVE LStrip(_)
LStrip(s) == IF s # <<>> /\ Head(s) = " " THEN LStrip(Tail(s)) ELSE s
RECURSIVE RStrip(_)
RStrip(s) ==
  IF s # <<>> /\ s[Len(s)] = " " THEN RStrip(SubSeq(s, 1, Len(s) - 1)) ELSE s
Strip(s) == RStrip(LStrip(s))

\* the status lists of _openrouter_chat_sync
SkipStatuses == {404, 410, 429, 500, 502, 503, 504}
AuthStatuses == {401, 403}

\* a dispatcher that treats 401 and 403 like any other failed attempt
ClassifyAuthAsFail(resp) ==
  IF resp.status = 200 /\ Strip(resp.content) # <<>> THEN "return" ELSE "fail"

\* a dispatcher that returns the content of every 200 response
ClassifyReturn200(resp) ==
  IF resp.status = 0 THEN "fail"
  ELSE IF resp.status = 200 THEN "return"
  ELSE IF resp.status \in AuthStatuses THEN "raise"
  ELSE "fail"

\* what _openrouter_chat_sync does with a response:
\*   "return" the content, "fail" (mark the model failed, continue), "raise"
Classify(resp) ==
  IF resp.status = 0 THEN "fail"
  ELSE IF resp.status = 200 /\ Strip(resp.content) # <<>> THEN "return"
  ELSE IF resp.status \in SkipStatuses THEN "fail"
  ELSE IF resp.status \in AuthStatuses THEN "raise"
  ELSE "fail"

(* --------------------------- cooldown state --------------------------- *)
NoState == [present |-> FALSE, fails |-> 0, skip_until |-> 0]
FreshState == [present |-> TRUE, fails |-> 0, skip_until |-> 0]

\* a comparison that still excludes the backend at the instant skip_until
CooldownOverStrict(t, st) == t > st.skip_until

\* a comparison that never finds a cooldown over
CooldownNever(t, st) == st.skip_until = 0

\* the comparison of _is_model_available
CooldownOver(t, st) == t >= st.skip_until

\* the value _is_model_available(model) would return now
IsAvailable(m) ==
  ~model_state[m].present \/ CooldownOver(now, model_state[m])

(* ------------------------- texts and messages ------------------------- *)
CRISIS_KEYWORDS ==
  << <<"w", "a", "n", "n", "a", " ", "d", "i", "e">>,
     <<"w", "a", "n", "t", " ", "t", "o", " ", "d", "i", "e">>,
     <<"k", "i", "l", "l", " ", "m", "y", "s", "e", "l", "f">>,
     <<"e", "n", "d", " ", "m", "y", " ", "l", "i", "f", "e">>,
     <<"s", "u", "i", "c", "i", "d", "e">>,
     <<"s", "u", "i", "c", "i", "d", "a", "l">>,
     <<"s", "e", "l", "f", " ", "h", "a", "r", "m">>,
     <<"s", "e", "l", "f", "-", "h", "a", "r", "m">>,
     <<"n", "o", " ", "r", "e", "a", "s", "o", "n", " ", "t", "o", " ", "l", "i", "v", "e">>,
     <<"c", "a", "n", "'", "t", " ", "g", "o", " ", "o", "n">>,
     <<"c", "a", "n", "t", " ", "g", "o", " ", "o", "n">>,
     <<"b", "e", "t", "t", "e", "r", " ", "o", "f", "f", " ", "d", "e", "a", "d">>,
     <<"e", "n", "d", " ", "i", "t", " ", "a", "l", "l">>,
     <<"d", "o", "n", "'", "t", " ", "w", "a", "n", "t", " ", "t", "o", " ", "l", "i", "v", "e">>,
     <<"d", "o", "n", "t", " ", "w", "a", "n", "t", " ", "t", "o", " ", "l", "i", "v", "e">>,
     <<"h", "a", "r", "m", " ", "m", "y", "s", "e", "l", "f">> >>

UpperCase ==
  <<"A", "B", "C", "D", "E", "F", "G", "H", "I", "J", "K", "L", "M",
    "N", "O", "P", "Q", "R", "S", "T", "U", "V", "W", "X", "Y", "Z">>
LowerCase ==
  <<"a", "b", "c", "d", "e", "f", "g", "h", "i", "j", "k", "l", "m",
    "n", "o", "p", "q", "r", "s", "t", "u", "v", "w", "x", "y", "z">>

\* str.lower(), character by character
LowerChar(c) ==
  IF \E i \in 1..Len(UpperCase) : UpperCase[i] = c
  THEN LowerCase[CHOOSE i \in 1..Len(UpperCase) : UpperCase[i] = c]
  ELSE c
Lower(s) == [i \in 1..Len(s) |-> LowerChar(s[i])]

\* kw in text
Contains(text, kw) ==
  \E i \in 0..(Len(text) - Len(kw)) : SubSeq(text, i + 1, i + Len(kw)) = kw

is_crisis(text) ==
  \E k \in 1..Len(CRISIS_KEYWORDS) : Contains(Lower(text), CRISIS_KEYWORDS[k])

\* the texts users send
UserTexts == { <<"h", "i">>, <<"S", "u", "i", "c", "i", "d", "e">> }

UserMsg(text) == [role |-> "user", content |-> text]
AssistantMsg(text) == [role |-> "assistant", content |-> text]

\* "I'm here for you. Could you share more?"
DefaultReply == <<"?">>

\* _trim_history: the list itself when it is short enough, else a new list
MaxKept == HISTORY_PAIRS_TO_KEEP * 2
KeepsList(history) == Len(history) <= MaxKept
\* variants: a trim that keeps everything, and one that keeps the oldest entries
TrimNone(history) == history
TrimmedHead(history) == SubSeq(history, 1, MaxKept)
Trimmed(history) == SubSeq(history, Len(history) - MaxKept + 1, Len(history))
trim_history(history) ==
  IF KeepsList(history) THEN history ELSE Trimmed(history)

\* history[-k:]
LastOf(s, k) == IF Len(s) <= k THEN s ELSE SubSeq(s, Len(s) - k + 1, Len(s))

\* get_stress_level: the level read from the rating reply, 1 by default
Digits == <<"0", "1", "2", "3", "4", "5", "6", "7", "8", "9">>
IsDigit(c) == \E i \in 1..Len(Digits) : Digits[i] = c
DigitValue(c) == (CHOOSE i \in 1..Len(Digits) : Digits[i] = c) - 1
\* a get_stress_level that takes any leading digit for the level
ParseAnyDigit(txt) ==
  LET raw == Strip(txt)
  IN IF raw # <<>> /\ IsDigit(raw[1]) THEN DigitValue(raw[1]) ELSE 1

ParseLevel(txt) ==
  LET raw == Strip(txt)
  IN IF raw # <<>> /\ IsDigit(raw[1])
        /\ 1 <= DigitValue(raw[1]) /\ DigitValue(raw[1]) <= 5
     THEN DigitValue(raw[1]) ELSE 1

(* ---------------------------- dispatch runs --------------------------- *)
\* res: how the run ended (the text returned, or the error raised)
NoResult == [kind |-> "none", text |-> <<>>]
\* A run: idx, tried, tmp (the fails read by _mark_model_failed) are its
\* locals; stale says that the state dict it holds was replaced in
\* _model_state; owner is the handler that awaits it, -1 a direct caller,
\* 0 nobody.  For the record: last is the status of the response in hand,
\* marked the backends it has marked failed, snap what a direct caller saw
\* in _model_state when it called.
NoSnap == [m \in Models |-> NoState]
IdleRun ==
  [pc |-> "idle", idx |-> 1, tried |-> 0, tmp |-> 0, stale |-> FALSE,
   res |-> NoResult, owner |-> 0, last |-> -1, marked |-> {}, snap |-> NoSnap]

Active(run) == run.pc \in {"avail", "reset", "wait", "mark"}

\* the run holds a reference to the state dict of backend m
HoldsState(run, m) == run.idx = m /\ run.pc \in {"reset", "mark"}

\* raise RuntimeError("All {tried} available models failed ...")
Exhausted(run) ==
  [run EXCEPT !.pc = "done", !.stale = FALSE, !.last = -1,
              !.res = [kind |-> "exhausted", text |-> <<>>]]

\* `continue`: on to the next backend, or past the end of the loop
Advance(run) ==
  IF run.idx < NumModels
  THEN [run EXCEPT !.pc = "avail", !.idx = run.idx + 1, !.stale = FALSE,
                   !.last = -1]
  ELSE Exhausted(run)

\* a request that is not counted
RequestUncounted(run) == [run EXCEPT !.pc = "wait", !.stale = FALSE]

\* tried += 1 and requests.post(...) is under way
Request(run) ==
  [run EXCEPT !.pc = "wait", !.tried = run.tried + 1, !.stale = FALSE]

\* the result of get_stress_level and of the reply call, as the handler's
\* gather receives them
NoReply == [kind |-> "none", text |-> <<>>]
\* a get_stress_level whose fallback level is 3 instead of 1
DeliverLevel3(hs, r, res) ==
  LET h == runs[r].owner
  IN IF r = RatingRun(h)
     THEN [hs EXCEPT ![h].stress =
                       IF res.kind = "text" THEN ParseLevel(res.text) ELSE 3,
                     ![h].rfail = (res.kind # "text"),
                     ![h].rated = res]
     ELSE [hs EXCEPT ![h].reply =
                       IF res.kind = "text"
                       THEN [kind |-> "text", text |-> res.text]
                       ELSE [kind |-> "fail", text |-> <<>>]]
Deliver(hs, r, res) ==
  LET h == runs[r].owner
  IN IF r = RatingRun(h)
     THEN [hs EXCEPT ![h].stress =
                       IF res.kind = "text" THEN ParseLevel(res.text) ELSE 1,
                     ![h].rfail = (res.kind # "text"),
                     ![h].rated = res]
     ELSE [hs EXCEPT ![h].reply =
                       IF res.kind = "text"
                       THEN [kind |-> "text", text |-> res.text]
                       ELSE [kind |-> "fail", text |-> <<>>]]

\* the step of run r leaves it as nr and the other runs as in rs; a run that
\* ends hands its result to the coroutine awaiting it
Settle(r, nr, rs) ==
  IF nr.pc = "done" /\ nr.owner >= 0
  THEN /\ runs' = [rs EXCEPT ![r] = IdleRun]
       /\ handlers' = IF nr.owner > 0 THEN Deliver(handlers, r, nr.res)
                      ELSE handlers
  ELSE /\ runs' = [rs EXCEPT ![r] = nr]
       /\ handlers' = handlers

\* a caller thread enters _openrouter_chat_sync; seen is what the caller
\* noted of _model_state beforehand
Call(r, seen) ==
  /\ r <= NumCallers
  /\ runs[r].pc = "idle"
  /\ \A q \in RunIds : q < r => runs[q].pc # "idle"
  /\ runs' = [runs EXCEPT ![r] = [IdleRun EXCEPT !.pc = "avail", !.owner = -1,
                                                  !.snap = seen]]
  /\ UNCHANGED <<now, model_state, chat_sessions, lists, handlers, listing, catalog>>

\* a call made while others may be under way
Send(r) == Call(r, NoSnap)

\* a call made when no other call is under way
SendSeq(r) ==
  /\ \A q \in RunIds : ~Active(runs[q])
  /\ Call(r, model_state)

\* a worker thread of the executor takes the job
Begin(r) ==
  /\ runs[r].pc = "queued"
  /\ Cardinality({q \in RunIds : Active(runs[q])}) < MaxWorkers
  /\ runs' = [runs EXCEPT ![r].pc = "avail"]
  /\ UNCHANGED <<now, model_state, chat_sessions, lists, handlers, listing, catalog>>

\* _is_model_available: state = _model_state.get(model) and the comparison
AvailCheck(r) ==
  LET run == runs[r]
      st == model_state[run.idx]
  IN /\ run.pc = "avail"
     /\ Settle(r, IF ~st.present THEN Request(run)
                  ELSE IF CooldownOver(now, st) THEN [run EXCEPT !.pc = "reset"]
                  ELSE Advance(run),
               runs)
     /\ UNCHANGED <<now, model_state, chat_sessions, lists, listing, catalog>>

\* _is_model_available: state["fails"] = 0; state["skip_until"] = 0.0; return True
AvailReset(r) ==
  LET run == runs[r]
  IN /\ run.pc = "reset"
     /\ model_state' =
          IF run.stale THEN model_state
          ELSE [model_state EXCEPT ![run.idx] = FreshState]
     /\ Settle(r, Request(run), runs)
     /\ UNCHANGED <<now, chat_sessions, lists, listing, catalog>>

\* the other runs that hold the dict which a success replaces
Detach(r, m) ==
  [q \in RunIds |->
     IF q # r /\ HoldsState(runs[q], m)
     THEN [runs[q] EXCEPT !.stale = TRUE] ELSE runs[q]]

\* return content
Returned(run, resp) ==
  [run EXCEPT !.pc = "done", !.last = resp.status,
              !.res = [kind |-> "text", text |-> resp.content]]

\* raise RuntimeError("OpenRouter Auth Error: ...")
Raised(run, resp) ==
  [run EXCEPT !.pc = "done", !.last = resp.status,
              !.res = [kind |-> "auth", text |-> <<>>]]

\* the response (or the exception) of requests.post arrives
Respond(r, resp) ==
  LET run == runs[r]
      m == run.idx
      st == model_state[m]
  IN /\ run.pc = "wait"
     /\ CASE Classify(resp) = "return" ->
               \* if model in _model_state: _model_state[model] = {...}
               /\ model_state' =
                    IF st.present THEN [model_state EXCEPT ![m] = FreshState]
                    ELSE model_state
               /\ Settle(r, Returned(run, resp),
                         IF st.present THEN Detach(r, m) ELSE runs)
          [] Classify(resp) = "raise" ->
               /\ model_state' = model_state
               /\ Settle(r, Raised(run, resp), runs)
          [] OTHER ->
               \* _mark_model_failed: setdefault and the read of state["fails"]
               /\ model_state' =
                    IF st.present THEN model_state
                    ELSE [model_state EXCEPT ![m] = FreshState]
               /\ Settle(r, [run EXCEPT !.pc = "mark", !.tmp = st.fails,
                                         !.last = resp.status], runs)
     /\ UNCHANGED <<now, chat_sessions, lists, listing, catalog>>

\* _mark_model_failed: the write of state["fails"], the threshold test and
\* state["skip_until"] = time.time() + MODEL_COOLDOWN_SECONDS
Marked(st, n, t) ==
  [st EXCEPT !.fails = n,
             !.skip_until = IF n >= MODEL_FAILURE_THRESHOLD
                            THEN t + MODEL_COOLDOWN_SECONDS
                            ELSE st.skip_until]

MarkWrite(r) ==
  LET run == runs[r]
      m == run.idx
  IN /\ run.pc = "mark"
     /\ run.tmp < MaxFails
     /\ model_state' =
          IF run.stale THEN model_state
          ELSE [model_state EXCEPT ![m] = Marked(model_state[m], run.tmp + 1, now)]
     /\ Settle(r, Advance([run EXCEPT !.tmp = 0,
                                       !.marked = run.marked \cup {m}]), runs)
     /\ UNCHANGED <<now, chat_sessions, lists, listing, catalog>>

Tick ==
  /\ now < MaxTime
  /\ now' = now + 1
  /\ UNCHANGED <<model_state, runs, chat_sessions, lists, handlers, listing, catalog>>

\* time.time() grows by one, told with the clock left at MaxTime and every
\* skip_until moved one tick towards the past instead: the code only compares
\* time.time() with skip_until and sets skip_until to time.time() + D, so the
\* two are the same to it; a skip_until that is past stays past and positive
Earlier(st) ==
  IF st.skip_until > 1 THEN [st EXCEPT !.skip_until = st.skip_until - 1] ELSE st

TickLive ==
  /\ IF now < MaxTime
     THEN now' = now + 1 /\ model_state' = model_state
     ELSE now' = now /\ model_state' = [m \in Models |-> Earlier(model_state[m])]
  /\ UNCHANGED <<runs, chat_sessions, lists, handlers, listing, catalog>>

\* a caller thread calls _openrouter_chat_sync, for the first time or again
CallLive(r) ==
  /\ r <= LiveCallers
  /\ runs[r].pc \in {"idle", "done"}
  /\ runs' = [runs EXCEPT ![r] = [IdleRun EXCEPT !.pc = "avail", !.owner = -1]]
  /\ UNCHANGED <<now, model_state, chat_sessions, lists, handlers, listing, catalog>>

RunStep(r) ==
  \/ AvailCheck(r)
  \/ AvailReset(r)
  \/ \E resp \in Responses : Respond(r, resp)
  \/ MarkWrite(r)

\* the same, the rating calls answered with all kinds of rating texts
RunStepRating(r) ==
  \/ AvailCheck(r)
  \/ AvailReset(r)
  \/ \E resp \in (IF \E h \in HandlerIds : r = RatingRun(h)
                  THEN RatingResponses ELSE Responses) : Respond(r, resp)
  \/ MarkWrite(r)

(* --------------------------- message handlers ------------------------- *)
NoOut == [kind |-> "none", text |-> <<>>, keyboard |-> FALSE]
\* the fixed texts of handle_message: the crisis reply (with the breathing
\* button) and "Sorry, something went wrong. Try /clear and send ... again."
CrisisOut == [kind |-> "crisis", text |-> <<>>, keyboard |-> TRUE]
ErrorOut == [kind |-> "error", text |-> <<>>, keyboard |-> FALSE]

\* A handler: user, text (the message), hist (the list its local `history`
\* refers to), stress and reply (what gather has received so far; rfail: the
\* rating call raised inside get_stress_level), out (the reply_text it issued
\* last).  For the record: shared says that another handler of the same user
\* has been in flight since this one cleared the session, copied that
\* _trim_history returned a new list when the user turn was appended, met that
\* another handler of the same user was waiting at its gather when this one
\* appended its assistant turn, old that the session of the user has been
\* cleared since the message was received, rated what the rating call of
\* get_stress_level came back with.
IdleHandler ==
  [pc |-> "idle", user |-> 0, text |-> <<>>, hist |-> 0, stress |-> 0,
   rfail |-> FALSE, reply |-> NoReply, out |-> NoOut, shared |-> FALSE,
   copied |-> FALSE, met |-> FALSE, old |-> FALSE, rated |-> NoReply]

InFlight(hd) == hd.pc \notin {"idle", "done"}

\* a list object no variable refers to
Referenced(l, sess, hs) ==
  \/ \E u \in Users : sess[u] = l
  \/ \E h \in HandlerIds : hs[h].hist = l
FreeList == CHOOSE l \in ListIds : ~Referenced(l, chat_sessions, handlers)

\* list objects nothing refers to any more are gone
Swept(ls, sess, hs) ==
  [l \in ListIds |-> IF Referenced(l, sess, hs) THEN ls[l] ELSE <<>>]

\* the except clause: chat_sessions.pop(user_id_int, None) and the reply_text
\* of the fixed error message, which the task then awaits
Failed(hd) ==
  [hd EXCEPT !.pc = "err_send", !.hist = 0, !.out = ErrorOut]

OthersInFlight(h) ==
  \E g \in HandlerIds :
    g # h /\ InFlight(handlers[g]) /\ handlers[g].user = handlers[h].user

\* the messages of user u received so far came before the clear of the session
Outdated(hs, u) ==
  [g \in HandlerIds |->
     IF hs[g].pc # "idle" /\ hs[g].user = u THEN [hs[g] EXCEPT !.old = TRUE]
     ELSE hs[g]]

\* an except clause without the pop of the session
ExceptKeep(h) ==
  LET hd == handlers[h]
      hs == [handlers EXCEPT ![h] =
               [Failed(hd) EXCEPT !.shared = OthersInFlight(h)]]
  IN /\ handlers' = hs
     /\ chat_sessions' = chat_sessions
     /\ lists' = Swept(lists, chat_sessions, hs)

Except(h) ==
  LET hd == handlers[h]
      hs == Outdated([handlers EXCEPT ![h] =
                        [Failed(hd) EXCEPT !.shared = OthersInFlight(h)]],
                     hd.user)
      sess == [chat_sessions EXCEPT ![hd.user] = 0]
  IN /\ handlers' = hs
     /\ chat_sessions' = sess
     /\ lists' = Swept(lists, sess, hs)

\* a _trim_history that returns a new list every time
StoredFresh(l, msg) == FreeList

\* history.append(msg) on list l, then chat_sessions[u] = _trim_history(history):
\* the session entry is l itself, or a new list with the last entries of l
Stored(l, msg) == IF KeepsList(Append(lists[l], msg)) THEN l ELSE FreeList
AppendTrim(l, msg) ==
  [[lists EXCEPT ![l] = Append(lists[l], msg)]
     EXCEPT ![Stored(l, msg)] = trim_history(Append(lists[l], msg))]

\* handle_message up to `await context.bot.send_chat_action(...)`
Start(h, u, text) ==
  /\ handlers[h].pc = "idle"
  /\ \A g \in HandlerIds : g < h => handlers[g].pc # "idle"
  /\ handlers' =
       [g \in HandlerIds |->
          IF g = h
          THEN [IdleHandler EXCEPT !.pc = "typing", !.user = u, !.text = text]
          ELSE IF handlers[g].pc = "err_send" /\ handlers[g].user = u
          THEN [handlers[g] EXCEPT !.shared = TRUE]
          ELSE handlers[g]]
  /\ chat_sessions' =
       IF chat_sessions[u] = 0 THEN [chat_sessions EXCEPT ![u] = FreeList]
       ELSE chat_sessions
  /\ UNCHANGED <<now, model_state, runs, lists, listing, catalog>>

\* send_chat_action returns (ok) or raises; then the crisis check, the append
\* of the user turn and the start of the two calls under asyncio.gather
TypingDone(h, ok) ==
  LET hd == handlers[h]
      u == hd.user
      l == chat_sessions[u]
      msg == UserMsg(hd.text)
  IN /\ hd.pc = "typing"
     /\ IF ~ok
        THEN Except(h) /\ UNCHANGED runs
        ELSE IF is_crisis(hd.text)
        THEN /\ handlers' = [handlers EXCEPT ![h] =
                               [hd EXCEPT !.pc = "crisis_send", !.out = CrisisOut]]
             /\ UNCHANGED <<runs, chat_sessions, lists>>
        ELSE IF l = 0
        THEN \* history = chat_sessions[user_id_int] raises KeyError
             Except(h) /\ UNCHANGED runs
        ELSE LET hs == [handlers EXCEPT ![h] =
                          [hd EXCEPT !.pc = "gather", !.hist = Stored(l, msg),
                                     !.copied = ~KeepsList(Append(lists[l], msg))]]
                 sess == [chat_sessions EXCEPT ![u] = Stored(l, msg)]
             IN /\ handlers' = hs
                /\ chat_sessions' = sess
                /\ lists' = Swept(AppendTrim(l, msg), sess, hs)
                /\ runs' = [runs EXCEPT
                              ![RatingRun(h)] =
                                 [IdleRun EXCEPT !.pc = "queued", !.owner = h],
                              ![ReplyRun(h)] =
                                 [IdleRun EXCEPT !.pc = "queued", !.owner = h]]
     /\ UNCHANGED <<now, model_state, listing, catalog>>

\* asyncio.gather hands over: the exception of the reply call as soon as it is
\* raised, or both results once both calls have returned
GatherDone(h) ==
  LET hd == handlers[h]
      u == hd.user
      l == hd.hist
      text == IF Strip(hd.reply.text) # <<>> THEN Strip(hd.reply.text)
              ELSE DefaultReply
      msg == AssistantMsg(text)
  IN /\ hd.pc = "gather"
     /\ \/ /\ hd.reply.kind = "fail"
           /\ Except(h)
           \* the rating call runs on, and nobody awaits it
           /\ runs' = [runs EXCEPT ![RatingRun(h)] =
                         IF runs[RatingRun(h)].pc = "idle" THEN IdleRun
                         ELSE [runs[RatingRun(h)] EXCEPT !.owner = 0]]
        \/ /\ hd.reply.kind = "text"
           /\ hd.stress # 0
           /\ LET hs == [handlers EXCEPT ![h] =
                           [hd EXCEPT !.pc = "reply_send", !.hist = 0,
                              !.met = \E g \in HandlerIds \ {h} :
                                        /\ handlers[g].pc = "gather"
                                        /\ handlers[g].user = u,
                              !.out = [kind |-> "reply", text |-> text,
                                       keyboard |-> (hd.stress >= 3)]]]
                  sess == [chat_sessions EXCEPT ![u] = Stored(l, msg)]
              IN /\ handlers' = hs
                 /\ chat_sessions' = sess
                 /\ lists' = Swept(AppendTrim(l, msg), sess, hs)
           /\ UNCHANGED runs
     /\ UNCHANGED <<now, model_state, listing, catalog>>

\* the reply_text the task awaits returns (ok) or raises
SendDone(h, ok) ==
  LET hd == handlers[h]
  IN /\ hd.pc \in {"reply_send", "crisis_send", "err_send"}
     /\ IF ok \/ hd.pc = "err_send"
        THEN /\ handlers' = [handlers EXCEPT ![h] = [hd EXCEPT !.pc = "done"]]
             /\ UNCHANGED <<chat_sessions, lists>>
        ELSE Except(h)
     /\ UNCHANGED <<now, model_state, runs, listing, catalog>>

\* the same, when no other message is being handled
StartSeq(h, u, text) ==
  /\ \A g \in HandlerIds : ~InFlight(handlers[g])
  /\ Start(h, u, text)

\* a second message of the user arrives while the first is at its gather
StartPair(h, u, text) ==
  /\ h > 1 => (handlers[h - 1].pc = "gather" /\ handlers[h - 1].user = u)
  /\ Start(h, u, text)

\* the /clear command: chat_sessions.pop(user_id, None)
Clear(u) ==
  /\ chat_sessions[u] # 0
  /\ chat_sessions' = [chat_sessions EXCEPT ![u] = 0]
  /\ handlers' = Outdated(handlers, u)
  /\ lists' = Swept(lists, chat_sessions', handlers)
  /\ UNCHANGED <<now, model_state, runs, listing, catalog>>

\* MODEL_PRIORITY = fetch_free_models(), with resp the answer to its request
Refresh(resp) ==
  /\ listing' = resp
  /\ catalog' = fetch_free_models(resp)
  /\ UNCHANGED <<now, model_state, runs, chat_sessions, lists, handlers>>

(* ---------------------------- specifications -------------------------- *)
Init ==
  /\ now = 1
  /\ model_state = [m \in Models |-> NoState]
  /\ runs = [r \in RunIds |-> IdleRun]
  /\ chat_sessions = [u \in Users |-> 0]
  /\ lists = [l \in ListIds |-> <<>>]
  /\ handlers = [h \in HandlerIds |-> IdleHandler]
  /\ listing = NoListing
  /\ catalog = <<>>

\* the bot: messages and /clear commands arrive, handlers and their runs step
Next ==
  \/ Tick
  \/ \E h \in HandlerIds, u \in Users, text \in UserTexts : Start(h, u, text)
  \/ \E h \in HandlerIds, ok \in BOOLEAN : TypingDone(h, ok)
  \/ \E h \in HandlerIds : GatherDone(h)
  \/ \E h \in HandlerIds, ok \in BOOLEAN : SendDone(h, ok)
  \/ \E u \in Users : Clear(u)
  \/ \E r \in RunIds : Begin(r)
  \/ \E r \in RunIds : RunStep(r)

Spec == Init /\ [][Next]_vars

\* the dispatcher alone, called by threads at any time
NextDispatch ==
  \/ Tick
  \/ \E r \in RunIds : Send(r)
  \/ \E r \in RunIds : RunStep(r)

SpecDispatch == Init /\ [][NextDispatch]_vars

\* the dispatcher alone, one call after the other
NextSeq ==
  \/ Tick
  \/ \E r \in RunIds : SendSeq(r)
  \/ \E r \in RunIds : RunStep(r)

SpecSeq == Init /\ [][NextSeq]_vars

\* the bot when messages are handled one after the other, without /clear
NextChat ==
  \/ Tick
  \/ \E h \in HandlerIds, u \in Users, text \in UserTexts : StartSeq(h, u, text)
  \/ \E h \in HandlerIds, ok \in BOOLEAN : TypingDone(h, ok)
  \/ \E h \in HandlerIds : GatherDone(h)
  \/ \E h \in HandlerIds, ok \in BOOLEAN : SendDone(h, ok)
  \/ \E r \in RunIds : Begin(r)
  \/ \E r \in RunIds : RunStep(r)

SpecChat == Init /\ [][NextChat]_vars

\* a user, new or with an earlier exchange in the history, whose messages
\* arrive each while the one before is waiting for the backends
EarlierExchange == <<UserMsg(<<"h", "i">>), AssistantMsg(<<"4">>)>>

InitPair ==
  /\ now = 1
  /\ model_state = [m \in Models |-> NoState]
  /\ runs = [r \in RunIds |-> IdleRun]
  /\ handlers = [h \in HandlerIds |-> IdleHandler]
  /\ listing = NoListing
  /\ catalog = <<>>
  /\ \/ /\ chat_sessions = [u \in Users |-> 0]
        /\ lists = [l \in ListIds |-> <<>>]
     \/ /\ chat_sessions = [u \in Users |-> IF u = 1 THEN 1 ELSE 0]
        /\ lists = [l \in ListIds |->
                      IF l = 1 THEN LastOf(EarlierExchange, MaxKept) ELSE <<>>]

NextPair ==
  \/ Tick
  \/ \E h \in HandlerIds, u \in Users, text \in UserTexts : StartPair(h, u, text)
  \/ \E h \in HandlerIds, ok \in BOOLEAN : TypingDone(h, ok)
  \/ \E h \in HandlerIds : GatherDone(h)
  \/ \E h \in HandlerIds, ok \in BOOLEAN : SendDone(h, ok)
  \/ \E r \in RunIds : Begin(r)
  \/ \E r \in RunIds : RunStep(r)

SpecPair == InitPair /\ [][NextPair]_vars

\* messages handled one at a time, the rating answered in all kinds of ways
NextRating ==
  \/ \E h \in HandlerIds, u \in Users, text \in UserTexts : StartSeq(h, u, text)
  \/ \E h \in HandlerIds, ok \in BOOLEAN : TypingDone(h, ok)
  \/ \E h \in HandlerIds : GatherDone(h)
  \/ \E h \in HandlerIds, ok \in BOOLEAN : SendDone(h, ok)
  \/ \E r \in RunIds : Begin(r)
  \/ \E r \in RunIds : RunStepRating(r)

SpecRating == Init /\ [][NextRating]_vars

\* the dispatcher called for ever: the clock advances, every thread that can
\* take a step does so in the end (requests end by an answer or by the timeout)
NextLive ==
  \/ TickLive
  \/ \E r \in RunIds : CallLive(r)
  \/ \E r \in RunIds : RunStep(r)

SpecLive ==
  /\ Init /\ [][NextLive]_vars
  /\ WF_vars(TickLive)
  /\ \A r \in 1..LiveCallers : WF_vars(RunStep(r))

\* the catalog alone: the listing is fetched, and fetched again
NextCatalog ==
  \E resp \in Listings : Refresh(resp)

SpecCatalog == Init /\ [][NextCatalog]_vars

(* ------------------------------- claims ------------------------------- *)
\* the direct calls 1..n have been made and have ended, and no other was made
CallsEnded(n) ==
  /\ \A q \in 1..n : runs[q].pc = "done"
  /\ \A q \in RunIds : q > n => runs[q].pc = "idle"

\* C1 (as stated): the failure counter of a backend is retained between
\* dispatch runs, so that MODEL_FAILURE_THRESHOLD successive runs that each
\* fail on the backend (no success on it in between, and within less than a
\* cooldown period, so that no cooldown can have run out) leave its counter at
\* the threshold and the backend in cooldown.
C1_FailuresAccumulate ==
  \A m \in Models : \A n \in MODEL_FAILURE_THRESHOLD..NumCallers :
    ( /\ CallsEnded(n)
      /\ now <= MODEL_COOLDOWN_SECONDS
      /\ \A q \in (n - MODEL_FAILURE_THRESHOLD + 1)..n : m \in runs[q].marked )
    => /\ model_state[m].fails >= MODEL_FAILURE_THRESHOLD
       /\ ~IsAvailable(m)

\* C2 (as stated): a run whose first n backends, all out of cooldown when
\* the call is made, each fail with a non-auth failure and whose backend n+1
\* answers with text returns that text, has sent no request past backend n+1,
\* has raised the failure counter of each of the first n by exactly one over
\* what it was when the call was made, and leaves backend n+1 with counter 0
\* and no cooldown.
C2_TransientThenSuccess ==
  \A r \in 1..NumCallers :
    LET run == runs[r]
    IN ( /\ run.pc = "done"
         /\ run.res.kind = "text"
         /\ \A q \in RunIds : q > r => runs[q].pc = "idle"
         /\ run.tried = run.idx
         /\ \A i \in 1..run.idx : run.snap[i].skip_until = 0
         /\ \A i \in 1..(run.idx - 1) : i \in run.marked )
       => /\ run.last = 200
          /\ Strip(run.res.text) # <<>>
          /\ \A i \in 1..(run.idx - 1) :
               model_state[i].fails = run.snap[i].fails + 1
          /\ model_state[run.idx].fails = 0
          /\ model_state[run.idx].skip_until = 0

\* run is between its availability check of backend m and the recording of
\* the outcome of its request to m
Engaged(run, m) == run.idx = m /\ run.pc \in {"reset", "wait", "mark"}

\* the step is one of run r: every step of a run moves it on
Steps(r) == runs'[r].pc # runs[r].pc \/ runs'[r].idx # runs[r].idx

\* the failure that brings the counter of m to the threshold puts m into
\* cooldown until now + MODEL_COOLDOWN_SECONDS
EntersCooldown(r, m) ==
  ( /\ runs[r].pc = "mark" /\ runs[r].idx = m /\ Steps(r)
    /\ model_state'[m] # model_state[m]
    /\ model_state'[m].fails >= MODEL_FAILURE_THRESHOLD )
  => /\ model_state'[m].skip_until = now + MODEL_COOLDOWN_SECONDS
     /\ ~IsAvailable(m)'

\* a check of m at or after the end of its cooldown returns True
CheckAfterCooldown(r, m) ==
  ( /\ runs[r].pc = "avail" /\ runs[r].idx = m /\ Steps(r)
    /\ model_state[m].skip_until > 0
    /\ now >= model_state[m].skip_until )
  => runs'[r].pc = "reset"

C4_AuthAborts ==
  [][\A r \in RunIds :
       /\ (runs[r].pc = "wait" /\ runs'[r].last \in AuthStatuses)
            => /\ runs'[r].pc = "done"
               /\ runs'[r].res.kind = "auth"
               /\ runs'[r].idx = runs[r].idx
               /\ runs'[r].tried = runs[r].tried
               /\ runs'[r].marked = runs[r].marked
               /\ model_state' = model_state
       /\ (runs[r].pc = "done" /\ runs[r].res.kind = "auth")
            => runs'[r] = runs[r]]_vars

\* a run has ended with the auth error of a backend that is not the last
\* one, after a failure on an earlier backend
C4_Witness ==
  \E r \in RunIds :
    /\ runs[r].pc = "done" /\ runs[r].res.kind = "auth"
    /\ runs[r].last \in AuthStatuses
    /\ 1 < runs[r].idx
    /\ runs[r].idx \notin runs[r].marked
    /\ ~model_state[runs[r].idx].present

\* C5 (as stated): a handler leaves the gather only when both of its runs
\* have ended: once it has gone on (to store the history, to clear the
\* session, to send), neither its rating run nor its reply run is pending.
C5_BothAwaited ==
  \A h \in HandlerIds :
    handlers[h].pc # "gather"
      => /\ runs[RatingRun(h)].pc = "idle"
         /\ runs[ReplyRun(h)].pc = "idle"

\* the history stored for user u (none and empty alike)
SessionOf(u) == IF chat_sessions[u] = 0 THEN <<>> ELSE lists[chat_sessions[u]]
SessionAfter(u) ==
  IF chat_sessions'[u] = 0 THEN <<>> ELSE lists'[chat_sessions'[u]]

\* C6: whenever the handlers are suspended (every state of the model is such
\* a point), the history stored for a user has at most 2 * K entries, however
\* the handlers of the same or of different users interleave.
C6_HistoryBounded ==
  \A u \in Users : Len(SessionOf(u)) <= 2 * HISTORY_PAIRS_TO_KEEP

\* a full history that has been cut at the front, while two handlers of the
\* user are in flight
C6_Witness ==
  \E u \in Users :
    /\ Len(SessionOf(u)) = 2 * HISTORY_PAIRS_TO_KEEP
    /\ SessionOf(u)[1].role = "assistant"
    /\ \E g, h \in HandlerIds :
         /\ g # h
         /\ InFlight(handlers[g]) /\ handlers[g].user = u
         /\ InFlight(handlers[h]) /\ handlers[h].user = u

\* u1, a1, ..., un, an: the messages of handlers 1..n and the replies sent
RECURSIVE Conversation(_)
Conversation(n) ==
  IF n = 0 THEN <<>>
  ELSE Conversation(n - 1)
         \o << UserMsg(handlers[n].text), AssistantMsg(handlers[n].out.text) >>

\* the first n messages came from u and each was answered with a reply; no
\* further message has arrived
AnsweredInTurn(u, n) ==
  /\ \A h \in 1..n :
       /\ handlers[h].user = u
       /\ handlers[h].pc \in {"reply_send", "done"}
       /\ handlers[h].out.kind = "reply"
  /\ \A h \in HandlerIds : h > n => handlers[h].pc = "idle"

\* C7: when the messages of one user are handled one after the other, each
\* answered and none a crisis, the history stored after the n-th is the last
\* min(2n, 2K) entries of u1, a1, ..., un, an.
C7_SequentialHistory ==
  \A u \in Users : \A n \in 1..MaxMsgs :
    AnsweredInTurn(u, n)
      => SessionOf(u) = LastOf(Conversation(n), 2 * HISTORY_PAIRS_TO_KEEP)

\* more turns than the window holds have been answered in turn
C7_Witness ==
  \E u \in Users :
    /\ AnsweredInTurn(u, MaxMsgs)
    /\ Len(Conversation(MaxMsgs)) > 2 * HISTORY_PAIRS_TO_KEEP
    /\ Len(SessionOf(u)) = 2 * HISTORY_PAIRS_TO_KEEP

\* C8 (as stated): no step of the handler of a crisis message changes the
\* stored history of the user or starts or touches a dispatch run, also when
\* a send of that handler fails.
C8_CrisisLeavesHistory ==
  [][\A h \in HandlerIds : \A u \in Users :
       ( /\ handlers'[h] # handlers[h]
         /\ handlers'[h].user = u
         /\ is_crisis(handlers'[h].text) )
       => /\ SessionAfter(u) = SessionOf(u)
          /\ runs' = runs
          /\ model_state' = model_state]_vars

\* C9: when the rating call of a message has failed and its reply call has
\* returned text, the handler goes on to send that text, without the
\* breathing button and with level 1; the session is kept, with the assistant
\* turn as its last entry, after the user turn the handler had appended.
C9_RatingFailureTolerated ==
  [][\A h \in HandlerIds :
       LET hd == handlers[h]
           u == hd.user
       IN ( /\ hd.pc = "gather" /\ handlers'[h].pc # "gather"
            /\ hd.rfail /\ hd.reply.kind = "text" )
          => /\ handlers'[h].pc = "reply_send"
             /\ handlers'[h].out =
                  [kind |-> "reply", text |-> Strip(hd.reply.text),
                   keyboard |-> FALSE]
             /\ hd.stress = 1
             /\ \E i \in 1..Len(lists[hd.hist]) :
                  lists[hd.hist][i] = UserMsg(hd.text)
             /\ chat_sessions'[u] # 0
             /\ SessionAfter(u) # <<>>
             /\ SessionAfter(u)[Len(SessionAfter(u))]
                  = AssistantMsg(Strip(hd.reply.text))]_vars

\* a reply is on its way although the rating call failed
C9_Witness ==
  \E h \in HandlerIds :
    /\ handlers[h].pc = "reply_send"
    /\ handlers[h].rfail
    /\ handlers[h].out.kind = "reply"
    /\ chat_sessions[handlers[h].user] # 0

\* the handler failed at the reply call or after it
FailedLate(hd) == hd.reply.kind # "none"

\* a failure of the reply call takes the handler to the except clause, and
\* the except clause of a message that is no crisis clears the session and
\* sends the fixed error text
FailureClears(h) ==
  LET hd == handlers[h]
  IN /\ ( /\ hd.pc = "gather" /\ handlers'[h].pc # "gather"
          /\ hd.reply.kind = "fail" )
          => handlers'[h].pc = "err_send"
     /\ ( /\ hd.pc # "err_send" /\ handlers'[h].pc = "err_send"
          /\ ~is_crisis(hd.text) )
          => /\ chat_sessions'[hd.user] = 0
             /\ handlers'[h].out = ErrorOut

\* C10 (as stated): a failure of the reply call or of a later step clears the
\* session and sends the fixed error text; when the handler then finishes
\* and no other handler of the user is in flight, the user has no session.
C10_ClearedWhenFinished ==
  [][\A h \in HandlerIds :
       /\ FailureClears(h)
       /\ ( /\ handlers[h].pc = "err_send" /\ handlers'[h].pc = "done"
            /\ \A g \in HandlerIds :
                 (g # h /\ handlers'[g].user = handlers[h].user)
                   => ~InFlight(handlers'[g])
            /\ FailedLate(handlers[h]) )
            => chat_sessions'[handlers[h].user] = 0]_vars

\* C10 (amended): ... when the handler then finishes and no other handler of
\* the user has been in flight since the session was cleared, the user has
\* no session.
C10_ClearedUnlessShared ==
  [][\A h \in HandlerIds :
       /\ FailureClears(h)
       /\ ( /\ handlers[h].pc = "err_send" /\ handlers'[h].pc = "done"
            /\ ~handlers[h].shared
            /\ FailedLate(handlers[h]) )
            => chat_sessions'[handlers[h].user] = 0]_vars

\* a handler whose reply call failed has finished, alone, after another
\* message of the user had been answered
C10_Witness ==
  \E h \in HandlerIds :
    /\ handlers[h].pc = "done"
    /\ handlers[h].reply.kind = "fail"
    /\ handlers[h].out = ErrorOut
    /\ ~handlers[h].shared
    /\ chat_sessions[handlers[h].user] = 0
    /\ \E g \in HandlerIds : handlers[g].pc = "done" /\ handlers[g].out.kind = "reply"

\* C11 (as stated): whatever the listing request brings, the list that
\* fetch_free_models returns has the default identifier at index 0 and at no
\* other index.
C11_DefaultOnceFirst ==
  listing # NoListing
    => /\ catalog # <<>>
       /\ catalog[1] = DefaultModel
       /\ \A i \in 2..Len(catalog) : catalog[i] # DefaultModel

\* C12 (as stated): the steps of runs on one backend interleave without
\* losing an update: every recorded failure raises the counter of the
\* backend by one over what it is at that moment (so two concurrent failures
\* raise it by two; a failure whose entry a success has replaced meanwhile
\* is left aside), and the reset of an availability check does not
\* overwrite a cooldown that a failure set after the check read the state.
C12_NoLostUpdate ==
  [][\A r \in RunIds : \A m \in Models :
       /\ (runs[r].pc = "mark" /\ runs[r].idx = m /\ Steps(r)
             /\ ~runs[r].stale)
            => model_state'[m].fails = model_state[m].fails + 1
       /\ (runs[r].pc = "reset" /\ runs[r].idx = m /\ Steps(r)
             /\ ~IsAvailable(m))
            => model_state'[m] = model_state[m]]_vars

\* backend m is in cooldown
Cooling(m) == model_state[m].present /\ now < model_state[m].skip_until

\* an availability check of backend m is about to be made
CheckDue(m) == \E r \in RunIds : runs[r].pc = "avail" /\ runs[r].idx = m

\* C13: a cooldown never ends later than D after the failure that set it,
\* and a backend in cooldown whose availability keeps being checked is in
\* the end available again with its counter at 0 and no cooldown.
C13_NeverExcludedForGood ==
  /\ [](\A m \in Models :
          model_state[m].skip_until <= now + MODEL_COOLDOWN_SECONDS)
  /\ \A m \in Models :
       ([]<>CheckDue(m)) => (Cooling(m) ~> (model_state[m] = FreshState))

\* a check has found the cooldown of a backend over
C13_Witness ==
  \E r \in RunIds : \E m \in Models :
    /\ runs[r].pc = "reset" /\ runs[r].idx = m
    /\ model_state[m].fails >= MODEL_FAILURE_THRESHOLD
    /\ model_state[m].skip_until > 0
    /\ now >= model_state[m].skip_until

\* C14: a run that ends with the exhaustion error reports (tried) the number
\* of backends it sent a request to, each of which it marked failed; the
\* backends it skipped are not counted, and it sent at most one request per
\* backend of the catalog.
C14_ExhaustionCount ==
  \A r \in RunIds :
    (runs[r].pc = "done" /\ runs[r].res.kind = "exhausted")
      => /\ runs[r].tried = Cardinality(runs[r].marked)
         /\ runs[r].tried <= NumModels
         /\ runs[r].idx = NumModels

\* a run found every backend in cooldown
C14_Witness ==
  \E r \in RunIds :
    /\ runs[r].pc = "done" /\ runs[r].res.kind = "exhausted"
    /\ runs[r].tried = 0
    /\ \A m \in Models : ~IsAvailable(m)

\* handlers 1 and 2, of user u, have both sent their reply and finished, the
\* one that ended first while the other was waiting for the backends (so
\* that both user turns are older than both assistant turns), and the two
\* replies differ
BothAnswered(u) ==
  /\ \A h \in 1..2 :
       /\ handlers[h].pc = "done"
       /\ handlers[h].user = u
       /\ handlers[h].out.kind = "reply"
  /\ \E h \in 1..2 : handlers[h].met
  /\ handlers[1].out.text # handlers[2].out.text

BothKept(u) ==
  \A h \in 1..2 : InList(SessionOf(u), AssistantMsg(handlers[h].out.text))

\* C15 (as stated): when the second message of a user is taken up while the
\* first waits for the backends and both are answered, the stored history
\* holds the assistant turn of both once both handlers have finished (each
\* is among the two newest entries, so that no trim is due to remove it).
C15_NoLostTurn ==
  \A u \in Users : BothAnswered(u) => BothKept(u)

\* C15 (amended): ... provided the append of the second message's user turn
\* triggers no trim, so that both handlers go on with the same list.
C15_NoLostTurnSameList ==
  \A u \in Users : (BothAnswered(u) /\ ~handlers[2].copied) => BothKept(u)

\* both were answered on the same list, and the history was trimmed
C15_Witness ==
  \E u \in Users :
    /\ BothAnswered(u) /\ ~handlers[2].copied
    /\ Len(SessionOf(u)) = MaxKept
    /\ SessionOf(u)[1].role = "assistant"

\* every message of user u received so far was received before a clear of
\* the user's session (the /clear command, or the except clause of a handler)
AllBeforeReset(u) ==
  /\ \E h \in HandlerIds : handlers[h].user = u /\ handlers[h].old
  /\ \A h \in HandlerIds :
       (handlers[h].pc # "idle" /\ handlers[h].user = u) => handlers[h].old

\* C16: once the session of a user has been cleared, the stored history holds
\* no message received before the clear: as long as no message has been
\* received since, the user has no stored history at all.
C16_ResetDurable ==
  \A u \in Users : AllBeforeReset(u) => SessionOf(u) = <<>>

\* C17: a 200 response whose reply text is missing, empty or blank is
\* handled like a transient error: the text is not returned, the failure is
\* recorded once (it counts toward the threshold and can start the cooldown)
\* and the run goes on to the next backend; a returned text is never blank.
C17_EmptyReplyIsFailure ==
  [][\A r \in RunIds :
       LET run == runs[r]
           m == run.idx
       IN /\ (run.pc = "wait" /\ Steps(r) /\ runs'[r].last = 200)
               => \/ /\ runs'[r].pc = "done"
                     /\ runs'[r].res.kind = "text"
                     /\ Strip(runs'[r].res.text) # <<>>
                  \/ /\ runs'[r].pc = "mark"
                     /\ runs'[r].idx = m
                     /\ runs'[r].res = NoResult
                     /\ model_state'[m].present
          /\ (run.pc = "mark" /\ Steps(r) /\ run.last = 200)
               => /\ m \notin run.marked
                  /\ runs'[r].marked = run.marked \cup {m}
                  /\ ~run.stale =>
                       /\ model_state'[m].fails = run.tmp + 1
                       /\ model_state'[m].fails >= MODEL_FAILURE_THRESHOLD
                            => model_state'[m].skip_until
                                 = now + MODEL_COOLDOWN_SECONDS
                  /\ IF m < NumModels
                     THEN runs'[r].pc = "avail" /\ runs'[r].idx = m + 1
                     ELSE runs'[r].pc = "done" /\ runs'[r].res.kind = "exhausted"
          /\ (runs'[r].pc = "done" /\ runs'[r].res.kind = "text")
               => Strip(runs'[r].res.text) # <<>>]_vars

\* a run is in _mark_model_failed for a blank 200 reply, and the failure it
\* is recording is the one that reaches the threshold
C17_Witness ==
  \E r \in RunIds :
    /\ runs[r].pc = "mark"
    /\ runs[r].last = 200
    /\ ~runs[r].stale
    /\ runs[r].res = NoResult
    /\ model_state[runs[r].idx].present
    /\ runs[r].tmp + 1 = MODEL_FAILURE_THRESHOLD

\* the level that a rating result stands for
LevelChars == {"1", "2", "3", "4", "5"}
RatedLevel(res) ==
  LET raw == Strip(res.text)
  IN IF res.kind = "text" /\ raw # <<>> /\ raw[1] \in LevelChars
     THEN CASE raw[1] = "1" -> 1 [] raw[1] = "2" -> 2 [] raw[1] = "3" -> 3
            [] raw[1] = "4" -> 4 [] raw[1] = "5" -> 5
     ELSE 1

\* C18: the risk level is an integer from 1 to 5: the first character of the
\* trimmed rating reply when that is a digit 1-5, and 1 otherwise (a leading 0
\* or 6-9, no digit, nothing at all, a dispatch run that failed); the rating
\* path hands over a level and no error.
C18_LevelInRange ==
  \A h \in HandlerIds :
    handlers[h].rated.kind # "none"
      => /\ handlers[h].stress \in 1..5
         /\ handlers[h].stress = RatedLevel(handlers[h].rated)
         /\ handlers[h].rated.kind # "text"
              => handlers[h].stress = 1 /\ handlers[h].rfail

\* one message was rated 2 from a padded reply, the other 1 from a reply that
\* starts with a digit outside 1-5
C18_Witness ==
  \E g, h \in HandlerIds :
    /\ handlers[g].rated = [kind |-> "text", text |-> <<" ", "2", " ">>]
    /\ handlers[g].stress = 2
    /\ handlers[h].rated.kind = "text"
    /\ handlers[h].rated.text \in {<<"0", "4">>, <<"6">>, <<"9">>}
    /\ handlers[h].stress = 1

====
